---- MODULE Spec2Model ----
(***************************************************************************)
(* yuugi: per-process CPU time and energy exporter (src/main.rs).          *)
(*                                                                         *)
(* The program starts an observability server, resolves the power model    *)
(* and the clock tick rate, registers two metric families (cpu_time and    *)
(* energy, both Family<Labels, Counter>) and then loops forever: wait for  *)
(* the interval timer, refresh the process list, and for every process     *)
(* store the CPU seconds and the estimated energy.                         *)
(*                                                                         *)
(* All arithmetic on f64 values is modelled bit-exactly (IEEE 754 binary64,*)
(* round to nearest, ties to even) on 53-bit significands held as          *)
(* little-endian sequences of 15-bit limbs, because the values the program *)
(* stores are truncations of f64 products and quotients.                   *)
(***************************************************************************)
EXTENDS Integers, Sequences, FiniteSets, TLC

(***************************************************************************)
(* Natural numbers of arbitrary size: little-endian limb sequences,        *)
(* canonical form has no leading (high) zero limb, zero is <<>>.           *)
(***************************************************************************)
LimbBits == 15
Base == 2^LimbBits

RECURSIVE BigFromInt(_)
BigFromInt(n) == IF n = 0 THEN <<>> ELSE <<n % Base>> \o BigFromInt(n \div Base)

RECURSIVE BigToInt(_)
BigToInt(b) == IF b = <<>> THEN 0 ELSE Head(b) + Base * BigToInt(Tail(b))

RECURSIVE BigTrim(_)
BigTrim(b) ==
    IF b = <<>> THEN <<>>
    ELSE IF b[Len(b)] = 0 THEN BigTrim(SubSeq(b, 1, Len(b) - 1))
    ELSE b

\* b * k + carry, for 0 <= k < Base and 0 <= carry < Base
RECURSIVE BigMulSmall(_, _, _)
BigMulSmall(b, k, carry) ==
    IF b = <<>> THEN (IF carry = 0 THEN <<>> ELSE <<carry>>)
    ELSE LET p == Head(b) * k + carry
         IN  <<p % Base>> \o BigMulSmall(Tail(b), k, p \div Base)

RECURSIVE BigAddC(_, _, _)
BigAddC(a, b, carry) ==
    IF a = <<>> /\ b = <<>> THEN (IF carry = 0 THEN <<>> ELSE <<carry>>)
    ELSE LET x == IF a = <<>> THEN 0 ELSE Head(a)
             y == IF b = <<>> THEN 0 ELSE Head(b)
             s == x + y + carry
         IN  <<s % Base>> \o BigAddC(IF a = <<>> THEN <<>> ELSE Tail(a),
                                     IF b = <<>> THEN <<>> ELSE Tail(b),
                                     s \div Base)

BigAdd(a, b) == BigAddC(a, b, 0)

RECURSIVE BigMul(_, _)
BigMul(a, b) ==
    IF b = <<>> \/ a = <<>> THEN <<>>
    ELSE BigTrim(BigAdd(BigMulSmall(a, Head(b), 0),
                        IF Tail(b) = <<>> THEN <<>>
                        ELSE <<0>> \o BigMul(a, Tail(b))))

RECURSIVE IntBitLen(_)
IntBitLen(n) == IF n = 0 THEN 0 ELSE 1 + IntBitLen(n \div 2)

BigBitLen(b) ==
    IF b = <<>> THEN 0 ELSE LimbBits * (Len(b) - 1) + IntBitLen(b[Len(b)])

BigIsOdd(b) == b # <<>> /\ Head(b) % 2 = 1

\* b * 2^k
BigShl(b, k) ==
    IF b = <<>> THEN <<>>
    ELSE [i \in 1..(k \div LimbBits) |-> 0] \o BigMulSmall(b, 2^(k % LimbBits), 0)

\* floor(b / 2^r) for 0 <= r < LimbBits
BigShrBits(b, r) ==
    BigTrim([i \in 1..Len(b) |->
                (b[i] \div 2^r)
                + (IF i < Len(b) THEN (b[i + 1] % 2^r) * 2^(LimbBits - r) ELSE 0)])

\* floor(b / 2^k), and whether any of the k bits shifted out was set
BigShr(b, k) ==
    LET q == k \div LimbBits
        r == k % LimbBits
        n == IF q < Len(b) THEN q ELSE Len(b)
        hi == SubSeq(b, n + 1, Len(b))
    IN  [q |-> BigShrBits(hi, r),
         sticky |-> (\E i \in 1..n : b[i] # 0)
                    \/ (hi # <<>> /\ Head(hi) % 2^r # 0)]

(***************************************************************************)
(* f64: the value m * 2^e with m = 0 or 2^52 <= m < 2^53.  Only finite,    *)
(* non-negative, normal values occur for the inputs of the model, so signs,*)
(* subnormals, infinities and NaN are not represented.                     *)
(***************************************************************************)
MantBits == 53

FZero == [m |-> <<>>, e |-> 0]

\* Round the exact value (M + s) * 2^E, 0 <= s < 1 and s > 0 iff sticky,
\* to the nearest f64, ties to even.
FRound(M, E, sticky) ==
    LET L == BigBitLen(M)
    IN  IF M = <<>> THEN FZero
        ELSE IF L <= MantBits
        THEN [m |-> BigShl(M, MantBits - L), e |-> E - (MantBits - L)]
        ELSE LET sh    == BigShr(M, L - MantBits - 1)
                 guard == BigIsOdd(sh.q)
                 Q     == BigShr(sh.q, 1).q
                 st    == sh.sticky \/ sticky
                 up    == guard /\ (st \/ BigIsOdd(Q))
                 R     == IF up THEN BigAdd(Q, <<1>>) ELSE Q
             IN  IF BigBitLen(R) > MantBits
                 THEN [m |-> BigShr(R, 1).q, e |-> E + (L - MantBits) + 1]
                 ELSE [m |-> R, e |-> E + (L - MantBits)]

\* `n as f64` for an unsigned integer n
U2F(n) == FRound(BigFromInt(n), 0, FALSE)

\* x * y
FMul(x, y) == FRound(BigMul(x.m, y.m), x.e + y.e, FALSE)

\* Number of trailing zero bits of n > 0 / of b # <<>>
RECURSIVE IntTrailingZeros(_)
IntTrailingZeros(n) == IF n % 2 = 1 THEN 0 ELSE 1 + IntTrailingZeros(n \div 2)

RECURSIVE BigTrailingZeros(_)
BigTrailingZeros(b) ==
    IF Head(b) = 0 THEN LimbBits + BigTrailingZeros(Tail(b))
    ELSE IntTrailingZeros(Head(b))

\* Short division of limbs i..1 of b by 0 < d < Base, with incoming remainder
RECURSIVE BigDivSmall(_, _, _, _)
BigDivSmall(b, d, i, rem) ==
    IF i = 0 THEN [q |-> <<>>, rem |-> rem]
    ELSE LET cur  == rem * Base + b[i]
             rest == BigDivSmall(b, d, i - 1, cur % d)
         IN  [q |-> Append(rest.q, cur \div d), rem |-> rest.rem]

\* x / y for y > 0.  Every divisor of the program is a small integer
\* converted to f64 (1.0 / clk_tck, power / cores, x / 3600.0), so the
\* significand of y is d * 2^k with d < Base, and the exact quotient is
\* (x.m / d) * 2^(x.e - y.e - k), rounded once.
GuardBits == 30
FDiv(x, y) ==
    IF x.m = <<>> THEN FZero
    ELSE LET k == BigTrailingZeros(y.m)
             d == BigToInt(BigShr(y.m, k).q)
             N == BigShl(x.m, GuardBits)
             r == BigDivSmall(N, d, Len(N), 0)
         IN  FRound(BigTrim(r.q), x.e - GuardBits - (y.e + k), r.rem # 0)

\* `x as u64`: truncation toward zero (values of the model stay far below
\* the saturation point 2^64 - 1)
F2U(x) ==
    IF x.m = <<>> THEN 0
    ELSE IF x.e >= 0 THEN BigToInt(BigShl(x.m, x.e))
    ELSE BigToInt(BigShr(x.m, 0 - x.e).q)

(***************************************************************************)
(* Inputs of the program: command line, operating system, /proc.           *)
(***************************************************************************)
\* --average-die-power (default value), Watts
AverageDiePower == 35
\* --collection-interval, in units of model time
Period == 2

\* results of num_cpus::get_physical() and of sysconf(_SC_CLK_TCK)
CoreCounts == {4, 7}
ClkTcks == {49, 100}

\* bounds of the exploration: passes started and stat files read in one run,
\* and how far behind its deadline the timer may fall
MaxPasses == 3
MaxReads == 2
MaxBehind == 3

\* how long a pass may take: less than a time unit, or more than two periods
PassDurations == {0, 2 * Period + 1}

\* struct Labels.  The processes of the model: pid 1 is "a x" and later, the
\* pid being reused, "b x"; pid 2 is "a x".
Labels ==
    {[process_name |-> "a", cmdline |-> "x", pid |-> 1],
     [process_name |-> "b", cmdline |-> "x", pid |-> 1],
     [process_name |-> "a", cmdline |-> "x", pid |-> 2]}

\* sys.processes() after a refresh: a map keyed by pid, iterated in any order
\* (empty when /proc cannot be listed)
ProcessLists ==
    {<<>>}
    \cup {<<l>> : l \in Labels}
    \cup {q \in Labels \X Labels : q[1].pid # q[2].pid}

\* One space-separated token of /proc/<pid>/stat: either the decimal text of
\* an unsigned integer, or text that str::parse::<u64> rejects.
Num(n) == [u64 |-> TRUE, v |-> n]
Text == [u64 |-> FALSE, v |-> 0]

\* /proc/<pid>/stat split at ' ': pid (comm) state ppid pgrp session tty_nr
\* tpgid flags minflt cminflt majflt cmajflt utime stime cutime cstime ...
\* comm is the executable name in parentheses and takes `words` tokens when
\* the name contains words - 1 spaces; tpgid is -1 for a process without a
\* controlling terminal.
StatContents(pid, words, utime, stime) ==
    <<Num(pid)>> \o [i \in 1..words |-> Text]
    \o <<Text, Num(1), Num(pid), Num(pid), Num(0), Text, Num(0),
         Num(0), Num(0), Num(0), Num(0), Num(utime), Num(stime), Num(0), Num(0)>>

\* cumulative (utime, stime) of a process whose name has no space
Times == {<<100, 0>>, <<100, 50>>, <<41000, 160>>}

\* fs::read_to_string("/proc/<pid>/stat"): Err (process gone, permission
\* denied) or Ok(contents)
ReadResults(pid) ==
    {[ok |-> FALSE, contents |-> <<>>]}
    \cup {[ok |-> TRUE, contents |-> StatContents(pid, 1, t[1], t[2])] : t \in Times}
    \cup {[ok |-> TRUE, contents |-> StatContents(pid, 2, 100, 50)],
          [ok |-> TRUE, contents |-> StatContents(pid, 7, 100, 50)],
          [ok |-> TRUE, contents |-> SubSeq(StatContents(pid, 1, 100, 50), 1, 10)]}

\* marks a call that panics instead of returning
Panic == -1

\* get_process_jiffies with a failed read reported as a non-zero reading
get_process_jiffies_nonzero(r) ==
    IF r.ok
    THEN LET contents == r.contents
         IN  IF Len(contents) < 14 \/ ~contents[14].u64 THEN Panic
             ELSE IF Len(contents) < 15 \/ ~contents[15].u64 THEN Panic
             ELSE contents[14].v + contents[15].v
    ELSE 100

\* fn get_process_jiffies: contents[13] and contents[14] are the 14th and
\* 15th token; indexing past the end panics, and so does unwrap() of a
\* failed parse.
get_process_jiffies(r) ==
    IF r.ok
    THEN LET contents == r.contents
         IN  IF Len(contents) < 14 \/ ~contents[14].u64 THEN Panic
             ELSE IF Len(contents) < 15 \/ ~contents[15].u64 THEN Panic
             ELSE contents[14].v + contents[15].v
    ELSE 0

\* run_time = (jiffies as f64) * jiffy_in_seconds
RunTime(jiffies, jiffy) == FMul(U2F(jiffies), jiffy)

\* e = (run_time * average_core_power) / 3600.0
Energy(rt, acp) == FDiv(FMul(rt, acp), U2F(3600))

(***************************************************************************)
(* State                                                                   *)
(***************************************************************************)
VARIABLES
    pc,                  \* position of main
    server_started,      \* watcher.start_server() has returned Ok
    num_physical_cores,
    average_core_power,  \* f64
    clk_tck,
    jiffy_in_seconds,    \* f64
    cpu_time,            \* Family<Labels, Counter>: Labels -> u64
    energy,              \* Family<Labels, Counter>: Labels -> u64
    procs,               \* sys.processes() of the current pass, in iteration order
    idx,                 \* number of entries of procs already taken by the for loop
    labels,              \* `labels` of the current iteration
    run_time,            \* `run_time` of the current iteration, f64
    now,                 \* Instant::now()
    deadline,            \* next deadline of collection_interval
    pass,                \* history: number of passes started
    last,                \* history: per identity, the last read of its stat file
    prev,                \* history: what the store held for `labels` when its read returned
    burst,               \* history: ticks completed late since time last advanced
    cause,               \* history: which unwrap() panicked
    reads,               \* history: number of stat files read
    same,                \* history: so far this pass repeats the pass before it
    before,              \* history: the two families when this pass started
    requests,            \* GET /metrics requests that are still to arrive
    scrape,              \* position of the handler that encodes the registry
    todo,                \* entries of the family being encoded, yet to be encoded
    snapshot,            \* what the handler has encoded: <<cpu_time, energy>>
    instants             \* history: every <<cpu_time, energy>> there has been

vars == <<pc, server_started, num_physical_cores, average_core_power, clk_tck,
          jiffy_in_seconds, cpu_time, energy, procs, idx, labels, run_time,
          now, deadline, pass, last, prev, burst, cause, reads, same, before,
          requests, scrape, todo, snapshot, instants>>

startup == <<num_physical_cores, average_core_power, clk_tck, jiffy_in_seconds>>
store == <<cpu_time, energy>>
loop == <<procs, idx, labels, run_time>>
timer == <<now, deadline, burst>>
history == <<pass, last, prev, reads, same, before>>
exporter == <<requests, scrape, todo, snapshot>>
sampler == <<pc, server_started, startup, store, loop, timer, history, cause>>

NoLabels == [process_name |-> "", cmdline |-> "", pid |-> 0]
Absent == <<>>
Empty == <<<<>>, <<>>>>

\* The history of the two families is kept for as long as a request may still
\* read them: from the start until the last request has been answered.
Recorded(c, e) ==
    IF requests = 0 /\ scrape = "idle" THEN instants
    ELSE instants \cup {<<c, e>>}

Init ==
    /\ pc = "start_server"
    /\ server_started = FALSE
    /\ num_physical_cores = 0
    /\ average_core_power = FZero
    /\ clk_tck = 0
    /\ jiffy_in_seconds = FZero
    /\ cpu_time = <<>>
    /\ energy = <<>>
    /\ procs = <<>>
    /\ idx = 0
    /\ labels = NoLabels
    /\ run_time = FZero
    /\ now = 0
    /\ deadline = 0
    /\ pass = 0
    /\ last = <<>>
    /\ prev = Absent
    /\ burst = 0
    /\ cause = "none"
    /\ reads = 0
    /\ same = FALSE
    /\ before = Empty
    /\ requests = 0
    /\ scrape = "idle"
    /\ todo = {}
    /\ snapshot = Empty
    /\ instants = {}

Max(a, b) == IF a >= b THEN a ELSE b

\* the identities of the process list of the current pass
Enumerated == {procs[i] : i \in 1..Len(procs)}

(***************************************************************************)
(* Start-up (main, up to the creation of the interval)                     *)
(***************************************************************************)
\* watcher.start_server(args.metrics_address.parse().unwrap()).await.unwrap()
StartServer ==
    /\ pc = "start_server"
    /\ \/ /\ server_started' = TRUE
          /\ pc' = "power"
          /\ UNCHANGED cause
       \/ /\ pc' = "panicked"
          /\ cause' = "start_server"
          /\ UNCHANGED server_started
    /\ UNCHANGED <<exporter, instants, startup, store, loop, timer, history>>

\* num_cpus::get_physical(); average_die_power / (num_physical_cores as f64)
ResolvePower ==
    /\ pc = "power"
    /\ \E n \in CoreCounts :
          /\ num_physical_cores' = n
          /\ average_core_power' = FDiv(U2F(AverageDiePower), U2F(n))
    /\ pc' = "clock"
    /\ UNCHANGED <<exporter, instants, server_started, clk_tck, jiffy_in_seconds,
                   store, loop, timer, history, cause>>

\* a failed sysconf() that is noted and passed over instead of unwrapped
ResolveClockUnchecked ==
    /\ pc = "clock"
    /\ \/ \E c \in ClkTcks :
             /\ clk_tck' = c
             /\ jiffy_in_seconds' = FDiv(U2F(1), U2F(c))
             /\ UNCHANGED cause
       \/ /\ cause' = "sysconf"
          /\ UNCHANGED <<clk_tck, jiffy_in_seconds>>
    /\ pc' = "register"
    /\ UNCHANGED <<exporter, instants, server_started, num_physical_cores,
                   average_core_power, store, loop, timer, history>>

\* sysconf(ScClkTck).unwrap(); 1.0 / (clk_tck as f64)
ResolveClock ==
    /\ pc = "clock"
    /\ \/ \E c \in ClkTcks :
             /\ clk_tck' = c
             /\ jiffy_in_seconds' = FDiv(U2F(1), U2F(c))
             /\ pc' = "register"
             /\ UNCHANGED cause
       \/ /\ pc' = "panicked"
          /\ cause' = "sysconf"
          /\ UNCHANGED <<clk_tck, jiffy_in_seconds>>
    /\ UNCHANGED <<exporter, instants, server_started, num_physical_cores,
                   average_core_power, store, loop, timer, history>>

\* the registry block: sys.host_name().unwrap(), the two Info metrics and the
\* two families; then time::interval(), whose first tick is due at once
Register ==
    /\ pc = "register"
    /\ \/ /\ pc' = "tick"
          /\ deadline' = now
          /\ UNCHANGED cause
       \/ /\ pc' = "panicked"
          /\ cause' = "host_name"
          /\ UNCHANGED deadline
    /\ UNCHANGED <<exporter, instants, server_started, startup, store, loop, now, burst, history>>

(***************************************************************************)
(* The sampling loop                                                       *)
(***************************************************************************)
\* the cores counted again, and the power of a core derived again, at every
\* tick
TickRecount ==
    /\ pc = "tick"
    /\ pass < MaxPasses
    /\ now' = Max(now, deadline)
    /\ deadline' = deadline + Period
    /\ burst' = IF deadline < now THEN burst + 1 ELSE 0
    /\ \E n \in CoreCounts :
          /\ num_physical_cores' = n
          /\ average_core_power' = FDiv(U2F(AverageDiePower), U2F(n))
    /\ \E ps \in ProcessLists :
          /\ reads + Len(ps) <= MaxReads
          /\ procs' = ps
    /\ idx' = 0
    /\ pass' = pass + 1
    /\ same' = (pass > 0 /\ {procs'[i] : i \in 1..Len(procs')} = Enumerated)
    /\ before' = <<cpu_time, energy>>
    /\ pc' = "loop"
    /\ UNCHANGED <<exporter, instants, server_started, clk_tck, jiffy_in_seconds,
                   store, labels, run_time, last, prev, cause, reads>>

\* collection_interval.tick().await; sys.refresh_all().  The interval keeps
\* the default MissedTickBehavior::Burst: the tick completes at the deadline,
\* or at once when the deadline has passed, and the next deadline is the old
\* one plus the period.
Tick ==
    /\ pc = "tick"
    /\ pass < MaxPasses
    /\ now' = Max(now, deadline)
    /\ deadline' = deadline + Period
    /\ burst' = IF deadline < now THEN burst + 1 ELSE 0
    /\ \E ps \in ProcessLists :
          /\ reads + Len(ps) <= MaxReads
          /\ procs' = ps
    /\ idx' = 0
    /\ pass' = pass + 1
    /\ same' = (pass > 0 /\ {procs'[i] : i \in 1..Len(procs')} = Enumerated)
    /\ before' = <<cpu_time, energy>>
    /\ pc' = "loop"
    /\ UNCHANGED <<exporter, instants, server_started, startup, store, labels,
                   run_time, last, prev, cause, reads>>

\* for (pid, process) in sys.processes(): Labels {..}; get_process_jiffies(pid);
\* run_time
NextProcess ==
    /\ pc = "loop"
    /\ idx < Len(procs)
    /\ LET l == procs[idx + 1]
       IN  \E r \in ReadResults(l.pid) :
             LET j == get_process_jiffies(r)
             IN  IF j = Panic
                 THEN /\ pc' = "panicked"
                      /\ cause' = "stat"
                      /\ UNCHANGED <<idx, labels, run_time, last, prev, same>>
                 ELSE /\ idx' = idx + 1
                      /\ labels' = l
                      /\ run_time' = RunTime(j, jiffy_in_seconds)
                      /\ last' = (l :> [jiffies |-> j, failed |-> ~r.ok, pass |-> pass])
                                 @@ last
                      /\ prev' = IF l \in DOMAIN energy
                                 THEN <<cpu_time[l], energy[l]>> ELSE Absent
                      /\ same' = (same /\ l \in DOMAIN last /\ last[l].jiffies = j)
                      /\ pc' = "cpu_get_or_create"
                      /\ UNCHANGED cause
    /\ reads' = reads + 1
    /\ UNCHANGED <<exporter, instants, server_started, startup, store, procs, timer,
                   pass, before>>

\* get_or_create that starts a fresh family instead of adding to it
CpuGetOrCreateFresh ==
    /\ pc = "cpu_get_or_create"
    /\ labels \in DOMAIN cpu_time \/ scrape # "cpu_time"
    /\ cpu_time' = IF labels \in DOMAIN cpu_time THEN cpu_time
                   ELSE (labels :> 0)
    /\ instants' = Recorded(cpu_time', energy)
    /\ pc' = "cpu_store"
    /\ UNCHANGED <<exporter, server_started, startup, energy, loop, timer, history, cause>>

\* cpu_time.get_or_create(&labels): a new Counter starts at 0.  An entry that
\* exists is found under the family's read lock; a new one is inserted under
\* its write lock, which waits while the family is being encoded.
CpuGetOrCreate ==
    /\ pc = "cpu_get_or_create"
    /\ labels \in DOMAIN cpu_time \/ scrape # "cpu_time"
    /\ cpu_time' = IF labels \in DOMAIN cpu_time THEN cpu_time
                   ELSE (labels :> 0) @@ cpu_time
    /\ instants' = Recorded(cpu_time', energy)
    /\ pc' = "cpu_store"
    /\ UNCHANGED <<exporter, server_started, startup, energy, loop, timer, history, cause>>

\* the counter incremented (inc_by) instead of stored
CpuStoreAdd ==
    /\ pc = "cpu_store"
    /\ cpu_time' = [cpu_time EXCEPT ![labels] = @ + F2U(run_time)]
    /\ instants' = Recorded(cpu_time', energy)
    /\ pc' = "energy_get_or_create"
    /\ UNCHANGED <<exporter, server_started, startup, energy, loop, timer, history, cause>>

\* the counter found by pid alone: every entry of the pid is stored to
CpuStoreByPid ==
    /\ pc = "cpu_store"
    /\ cpu_time' = [id \in DOMAIN cpu_time |->
                       IF id.pid = labels.pid THEN F2U(run_time) ELSE cpu_time[id]]
    /\ instants' = Recorded(cpu_time', energy)
    /\ pc' = "energy_get_or_create"
    /\ UNCHANGED <<exporter, server_started, startup, energy, loop, timer, history, cause>>

\* .inner().store(run_time as u64, Ordering::Relaxed)
CpuStore ==
    /\ pc = "cpu_store"
    /\ cpu_time' = [cpu_time EXCEPT ![labels] = F2U(run_time)]
    /\ instants' = Recorded(cpu_time', energy)
    /\ pc' = "energy_get_or_create"
    /\ UNCHANGED <<exporter, server_started, startup, energy, loop, timer, history, cause>>

\* the energy entries of all the processes of the pass created at once
EnergyGetOrCreateAll ==
    /\ pc = "energy_get_or_create"
    /\ labels \in DOMAIN energy \/ scrape # "energy"
    /\ energy' = [id \in DOMAIN energy \cup Enumerated |->
                     IF id \in DOMAIN energy THEN energy[id] ELSE 0]
    /\ instants' = Recorded(cpu_time, energy')
    /\ pc' = "energy_store"
    /\ UNCHANGED <<exporter, server_started, startup, cpu_time, loop, timer, history, cause>>

\* energy.get_or_create(&labels)
EnergyGetOrCreate ==
    /\ pc = "energy_get_or_create"
    /\ labels \in DOMAIN energy \/ scrape # "energy"
    /\ energy' = IF labels \in DOMAIN energy THEN energy
                 ELSE (labels :> 0) @@ energy
    /\ instants' = Recorded(cpu_time, energy')
    /\ pc' = "energy_store"
    /\ UNCHANGED <<exporter, server_started, startup, cpu_time, loop, timer, history, cause>>

\* the energy stored in watt-seconds: the division by 3600.0 left out
EnergyStoreWattSeconds ==
    /\ pc = "energy_store"
    /\ energy' = [energy EXCEPT ![labels] = F2U(FMul(run_time, average_core_power))]
    /\ instants' = Recorded(cpu_time, energy')
    /\ pc' = "loop"
    /\ UNCHANGED <<exporter, server_started, startup, cpu_time, loop, timer, history, cause>>

\* the energy counter incremented (inc_by) instead of stored
EnergyStoreAdd ==
    /\ pc = "energy_store"
    /\ energy' = [energy EXCEPT
                     ![labels] = @ + F2U(Energy(run_time, average_core_power))]
    /\ instants' = Recorded(cpu_time, energy')
    /\ pc' = "loop"
    /\ UNCHANGED <<exporter, server_started, startup, cpu_time, loop, timer, history, cause>>

\* .inner().store(e as u64, Ordering::Relaxed)
EnergyStore ==
    /\ pc = "energy_store"
    /\ energy' = [energy EXCEPT ![labels] = F2U(Energy(run_time, average_core_power))]
    /\ instants' = Recorded(cpu_time, energy')
    /\ pc' = "loop"
    /\ UNCHANGED <<exporter, server_started, startup, cpu_time, loop, timer, history, cause>>

\* the loop left before the process list is exhausted
EndPassEarly ==
    /\ pc = "loop"
    /\ idx <= Len(procs)
    /\ \E d \in PassDurations :
          /\ d = 0 \/ now + d - deadline <= MaxBehind
          /\ now' = now + d
          /\ burst' = IF d > 0 THEN 0 ELSE burst
    /\ pc' = "tick"
    /\ UNCHANGED <<exporter, instants, server_started, startup, store, loop, deadline, history, cause>>

\* the for loop is exhausted: back to collection_interval.tick().await, the
\* pass having taken d units of time
EndPass ==
    /\ pc = "loop"
    /\ idx = Len(procs)
    /\ \E d \in PassDurations :
          /\ d = 0 \/ now + d - deadline <= MaxBehind
          /\ now' = now + d
          /\ burst' = IF d > 0 THEN 0 ELSE burst
    /\ pc' = "tick"
    /\ UNCHANGED <<exporter, instants, server_started, startup, store, loop, deadline, history, cause>>

Next ==
    \/ StartServer
    \/ ResolvePower
    \/ ResolveClock
    \/ Register
    \/ Tick
    \/ NextProcess
    \/ CpuGetOrCreate
    \/ CpuStore
    \/ EnergyGetOrCreate
    \/ EnergyStore
    \/ EndPass

Spec == Init /\ [][Next]_vars

(***************************************************************************)
(* The exporter: the server that start_server() spawned answers GET        *)
(* /metrics by encoding the registry, family by family in the order of     *)
(* registration, on another thread of the runtime than the sampling loop.  *)
(***************************************************************************)
\* requests that arrive in one run
MaxScrapes == 1

\* A request arrives and the handler starts to encode cpu_time.  A family
\* is encoded with its read lock held, so its entries are those it has now.
ScrapeBegin ==
    /\ scrape = "idle"
    /\ requests > 0
    /\ server_started
    /\ pc \notin {"start_server", "power", "clock", "register", "panicked"}
    /\ requests' = requests - 1
    /\ scrape' = "cpu_time"
    /\ todo' = DOMAIN cpu_time
    /\ snapshot' = Empty
    /\ UNCHANGED <<sampler, instants>>

\* a load that is not atomic: the upper bits of the counter as it is now with
\* the low byte it had when the pass started
ScrapeEntryTorn ==
    /\ scrape \in {"cpu_time", "energy"}
    /\ pc # "panicked"
    /\ \E id \in todo :
          LET f == IF scrape = "cpu_time" THEN 1 ELSE 2
              cur == IF f = 1 THEN cpu_time[id] ELSE energy[id]
              old == IF id \in DOMAIN before[f] THEN before[f][id] ELSE cur
              v == ((cur \div 256) * 256) + (old % 256)
          IN  /\ snapshot' = [snapshot EXCEPT ![f] = (id :> v) @@ @]
              /\ todo' = todo \ {id}
    /\ UNCHANGED <<requests, scrape, sampler, instants>>

\* The handler encodes one entry of the family: the labels and the counter's
\* value, an atomic load.  The entries of a HashMap come in any order.
ScrapeEntry ==
    /\ scrape \in {"cpu_time", "energy"}
    /\ pc # "panicked"
    /\ \E id \in todo :
          LET f == IF scrape = "cpu_time" THEN 1 ELSE 2
              v == IF f = 1 THEN cpu_time[id] ELSE energy[id]
          IN  /\ snapshot' = [snapshot EXCEPT ![f] = (id :> v) @@ @]
              /\ todo' = todo \ {id}
    /\ UNCHANGED <<requests, scrape, sampler, instants>>

\* cpu_time is encoded: its lock is released and energy is encoded next
ScrapeNextFamily ==
    /\ scrape = "cpu_time"
    /\ todo = {}
    /\ pc # "panicked"
    /\ scrape' = "energy"
    /\ todo' = DOMAIN energy
    /\ UNCHANGED <<requests, snapshot, sampler, instants>>

\* energy is encoded too: the response is sent
ScrapeEnd ==
    /\ scrape = "energy"
    /\ todo = {}
    /\ pc # "panicked"
    /\ scrape' = "idle"
    /\ snapshot' = Empty
    /\ instants' = IF requests = 0 THEN {} ELSE instants
    /\ UNCHANGED <<requests, todo, sampler>>

\* The process of the first pass of SpecScrape.
FirstProcess == [process_name |-> "a", cmdline |-> "x", pid |-> 1]

\* The program on a machine with a 100 Hz clock and 4 cores after a start-up
\* that succeeded and a first pass that found FirstProcess with 100 ticks:
\* main waits for the second tick, MaxScrapes requests are on their way and
\* instants holds what the two families have been so far.
InitScrape ==
    /\ pc = "tick"
    /\ server_started = TRUE
    /\ num_physical_cores = 4
    /\ average_core_power = FDiv(U2F(AverageDiePower), U2F(4))
    /\ clk_tck = 100
    /\ jiffy_in_seconds = FDiv(U2F(1), U2F(100))
    /\ cpu_time = (FirstProcess :> 1)
    /\ energy = (FirstProcess :> 0)
    /\ procs = <<FirstProcess>>
    /\ idx = 1
    /\ labels = FirstProcess
    /\ run_time = RunTime(100, jiffy_in_seconds)
    /\ now = 0
    /\ deadline = Period
    /\ pass = 1
    /\ last = (FirstProcess :> [jiffies |-> 100, failed |-> FALSE, pass |-> 1])
    /\ prev = Absent
    /\ burst = 0
    /\ cause = "none"
    /\ reads = 1
    /\ same = FALSE
    /\ before = Empty
    /\ requests = MaxScrapes
    /\ scrape = "idle"
    /\ todo = {}
    /\ snapshot = Empty
    /\ instants = {Empty,
                   <<(FirstProcess :> 0), <<>>>>,
                   <<(FirstProcess :> 1), <<>>>>,
                   <<(FirstProcess :> 1), (FirstProcess :> 0)>>}

NextScrape ==
    \/ Tick
    \/ NextProcess
    \/ CpuGetOrCreate
    \/ CpuStore
    \/ EnergyGetOrCreate
    \/ EnergyStore
    \/ EndPass
    \/ ScrapeBegin
    \/ ScrapeEntry
    \/ ScrapeNextFamily
    \/ ScrapeEnd

SpecScrape == InitScrape /\ [][NextScrape]_vars

(***************************************************************************)
(* Properties                                                              *)
(***************************************************************************)
\* main is between get_or_create of cpu_time and the store into energy
InUpsert ==
    pc \in {"cpu_get_or_create", "cpu_store", "energy_get_or_create", "energy_store"}

\* the upsert for id that follows the last read of id is complete
Settled(id) == ~(InUpsert /\ id = labels)

\* What main derives from a reading of j ticks, tabulated once for every
\* tick rate, core count and reading of the model:
\* the f64 jiffy_in_seconds and average_core_power,
JiffyOf == [c \in ClkTcks |-> FDiv(U2F(1), U2F(c))]
CorePowerOf == [n \in CoreCounts |-> FDiv(U2F(AverageDiePower), U2F(n))]
\* the readings get_process_jiffies can return,
Readings ==
    {get_process_jiffies(r) : r \in UNION {ReadResults(l.pid) : l \in Labels}}
    \ {Panic}
\* the f64 run_time and the two u64 values stored,
RunTimeOf == [c \in ClkTcks, j \in Readings |-> RunTime(j, JiffyOf[c])]
CpuSecondsTable == [c \in ClkTcks, j \in Readings |-> F2U(RunTimeOf[c, j])]
EnergyWhTable ==
    [c \in ClkTcks, n \in CoreCounts, j \in Readings |->
        F2U(Energy(RunTimeOf[c, j], CorePowerOf[n]))]
\* and the energy formula applied to a whole number of seconds.
WholeSeconds ==
    UNION {{CpuSecondsTable[c, j], CpuSecondsTable[c, j] + 1} :
              c \in ClkTcks, j \in Readings}
EnergyOfSecondsTable ==
    [n \in CoreCounts, sec \in WholeSeconds |-> F2U(Energy(U2F(sec), CorePowerOf[n]))]

CpuSecondsOf(j) == CpuSecondsTable[clk_tck, j]
EnergyWhOf(j) == EnergyWhTable[clk_tck, num_physical_cores, j]
EnergyOfSeconds(sec) ==
    IF sec \in WholeSeconds THEN EnergyOfSecondsTable[num_physical_cores, sec]
    ELSE F2U(Energy(U2F(sec), average_core_power))

\* C1: overwrite semantics.  Whatever passes came before, once the upsert of
\* an identity is complete both stored fields are the values derived from
\* the ticks of the most recent read of that identity alone; earlier
\* readings do not add to them.
C1_Overwrite ==
    \A id \in DOMAIN last :
        Settled(id) =>
            /\ id \in DOMAIN cpu_time
            /\ id \in DOMAIN energy
            /\ cpu_time[id] = CpuSecondsOf(last[id].jiffies)
            /\ energy[id] = EnergyWhOf(last[id].jiffies)

\* an identity that held 2 s (100 ticks at 49 Hz) was read again at 150 ticks
\* and now holds 3 s, not 5 s
C1_Witness ==
    /\ pc = "loop"
    /\ clk_tck = 49
    /\ labels \in DOMAIN last
    /\ prev # Absent
    /\ prev[1] = 2
    /\ last[labels].jiffies = 150
    /\ cpu_time[labels] = 3

\* C2: isolation.  When in one pass the read of A failed and the read of B
\* succeeded, and both have been upserted, the program has not panicked, A was
\* taken as 0 ticks and B holds the values derived from B's reading, in
\* whichever order the two were enumerated.
C2_Isolation ==
    \A A \in Enumerated, B \in Enumerated :
        ( /\ A \in DOMAIN last /\ B \in DOMAIN last
          /\ last[A].pass = pass /\ last[B].pass = pass
          /\ Settled(A) /\ Settled(B)
          /\ last[A].failed /\ ~last[B].failed )
        => /\ pc # "panicked"
           /\ last[A].jiffies = 0
           /\ cpu_time[A] = 0
           /\ energy[A] = 0
           /\ cpu_time[B] = CpuSecondsOf(last[B].jiffies)
           /\ energy[B] = EnergyWhOf(last[B].jiffies)

\* a completed pass in which the first process could not be read and the
\* second one was read and stored with a non-zero value
C2_Witness ==
    /\ pc = "tick"
    /\ Len(procs) = 2
    /\ last[procs[1]].pass = pass /\ last[procs[1]].failed
    /\ last[procs[2]].pass = pass /\ ~last[procs[2]].failed
    /\ cpu_time[procs[2]] > 0

\* C3: a malformed accounting record never aborts the pass, i.e. the program
\* never panics on the contents of a stat file.
C3_MalformedNeverAborts == ~(pc = "panicked" /\ cause = "stat")

\* C4: a failed read leaves the stored values of an identity that was
\* already in the store as they were before the read.
C4_FailedReadKeepsValue ==
    ( /\ pc = "loop"
      /\ labels \in DOMAIN last
      /\ last[labels].failed
      /\ prev # Absent )
    => /\ cpu_time[labels] = prev[1]
       /\ energy[labels] = prev[2]

\* C5: no deletion.  No step removes a key from either family, and no step
\* changes a field of an identity that the current pass does not enumerate.
C5_NoDeletion ==
    [][ /\ DOMAIN cpu_time \subseteq DOMAIN cpu_time'
        /\ DOMAIN energy \subseteq DOMAIN energy'
        /\ \A id \in DOMAIN cpu_time :
              id \notin Enumerated' => cpu_time'[id] = cpu_time[id]
        /\ \A id \in DOMAIN energy :
              id \notin Enumerated' => energy'[id] = energy[id] ]_vars

\* after a later pass that did not enumerate it, an identity is still in the
\* store with a non-zero value
C5_Witness ==
    /\ pc = "tick"
    /\ \E id \in DOMAIN cpu_time :
          /\ id \notin Enumerated
          /\ last[id].pass < pass
          /\ id \in DOMAIN energy
          /\ cpu_time[id] > 0

\* C6: for a process that was read successfully the stored cpu_seconds is
\* floor(total_ticks / ticks_per_second).
C6_CpuSecondsIsFloor ==
    \A id \in DOMAIN last :
        (Settled(id) /\ ~last[id].failed)
        => cpu_time[id] = last[id].jiffies \div clk_tck

\* C7 as claimed: the stored energy_wh is floor(cpu_seconds *
\* average_core_power / 3600) of the stored whole-second cpu_seconds.
C7_EnergyFromStoredSeconds ==
    \A id \in DOMAIN energy :
        Settled(id) =>
            energy[id] = EnergyOfSeconds(cpu_time[id])

\* C7 as amended: at the end of an upsert the two fields are the truncations
\* of run_time and of (run_time * average_core_power) / 3600 for the same
\* untruncated run_time; so for every identity energy_wh lies between what
\* the formula gives for the stored cpu_seconds and for cpu_seconds + 1.
C7_EnergyFromRunTime ==
    /\ (pc = "loop" /\ idx > 0)
       => /\ run_time = RunTimeOf[clk_tck, last[labels].jiffies]
          /\ cpu_time[labels] = F2U(run_time)
          /\ energy[labels] = EnergyWhOf(last[labels].jiffies)
    /\ \A id \in DOMAIN energy :
          Settled(id) =>
             /\ EnergyOfSeconds(cpu_time[id]) <= energy[id]
             /\ energy[id] <= EnergyOfSeconds(cpu_time[id] + 1)

\* 41160 ticks at 100 Hz with 35 W over 4 cores: 411 s are stored, and 1 Wh,
\* where the whole seconds alone give 0 Wh
C7_Witness ==
    /\ pc = "loop"
    /\ idx > 0
    /\ cpu_time[labels] = 411
    /\ energy[labels] = 1

\* C8: single sequential writer.  A new pass starts only from the wait for
\* the tick, one pass number at a time; the wait for the tick is reached only
\* once the process list is exhausted; and every read belongs to the current
\* pass, so the pass number of the last upsert of an identity never decreases.
C8_SingleWriter ==
    [][ /\ pass' # pass => (pc = "tick" /\ pass' = pass + 1)
        /\ (pc' = "tick" /\ pc = "loop") => idx = Len(procs)
        /\ (pc' = "tick") => pc \in {"register", "loop", "tick"}
        /\ \A id \in DOMAIN last' :
              /\ last'[id].pass <= pass'
              /\ id \in DOMAIN last => last'[id].pass >= last[id].pass
              /\ (id \notin DOMAIN last \/ last'[id] # last[id])
                    => (last'[id].pass = pass /\ pc = "loop") ]_vars

\* an identity upserted in the first pass has been upserted again in the
\* second pass, which is complete
C8_Witness ==
    /\ pc = "tick"
    /\ pass = 2
    /\ \E id \in DOMAIN last : last[id].pass = 2 /\ prev # Absent /\ id = labels

\* C9: no catch-up burst.  After an overrun at most one tick completes late
\* before time has to pass again.
C9_NoCatchUpBurst == burst <= 1

\* C10: when the clock tick rate or the host name cannot be resolved, the
\* server has not been started.
C10_NothingExposedOnFailure ==
    (pc = "panicked" /\ cause \in {"sysconf", "host_name"}) => ~server_started

\* start-up has resolved the power model and the clock rate
Resolved ==
    /\ num_physical_cores \in CoreCounts
    /\ average_core_power = CorePowerOf[num_physical_cores]
    /\ clk_tck \in ClkTcks
    /\ jiffy_in_seconds = JiffyOf[clk_tck]

\* C11: start-up ordering.  The power model and the clock rate are each
\* resolved once, from their unresolved state and before any pass; a pass
\* starts only when both are resolved and nothing has failed; and when the
\* clock rate cannot be resolved the program stops with no pass started, no
\* stat file read and both families empty.
C11_StartupOrdering ==
    [][ /\ <<num_physical_cores, average_core_power>>'
              # <<num_physical_cores, average_core_power>>
           => (pc = "power" /\ num_physical_cores = 0 /\ pass = 0)
        /\ <<clk_tck, jiffy_in_seconds>>' # <<clk_tck, jiffy_in_seconds>>
           => (pc = "clock" /\ clk_tck = 0 /\ pass = 0)
        /\ pass' # pass => (Resolved /\ cause = "none" /\ UNCHANGED startup)
        /\ cause # "none" => (pc = "panicked" /\ pc' = "panicked")
        /\ (pc' = "panicked" /\ cause' = "sysconf")
           => /\ pass' = 0
              /\ reads' = 0
              /\ cpu_time' = <<>>
              /\ energy' = <<>> ]_vars

\* the cores were counted, sysconf() failed, and the program has stopped
C11_Witness ==
    /\ pc = "panicked"
    /\ cause = "sysconf"
    /\ num_physical_cores = 7
    /\ clk_tck = 0
    /\ pass = 0

\* the handler has encoded every entry of both families
Complete == scrape = "energy" /\ todo = {}

\* the values that field f (1: cpu_time, 2: energy) of id has held: the 0 of
\* its creation and what was stored to it
FieldValues(f, id) == {s[f][id] : s \in {t \in instants : id \in DOMAIN t[f]}}

\* C12: snapshot consistency.  What a request has encoded, entry by entry
\* while passes ran, is what the two families held at one instant of the
\* execution.
C12_SnapshotIsAnInstant == Complete => snapshot \in instants

C14_Idempotence == (pc = "tick" /\ same) => <<cpu_time, energy>> = before

\* a second pass has read 41160 ticks again for the one process of the first
\* pass, which holds 411 s and 1 Wh
C14_Witness ==
    /\ pc = "tick"
    /\ same
    /\ pass >= 2
    /\ \E id \in Enumerated :
          /\ last[id].jiffies = 41160
          /\ cpu_time[id] = 411
          /\ energy[id] = 1

\* 5.0 as an f64
FiveWatts == U2F(5)

\* C15: the power of a core and the length of a tick are fixed at start-up.
\* Only the two steps of start-up that resolve them change them; and once a
\* pass has started average_core_power is average_die_power divided by the
\* core count found at start-up (5 for 35 W over 7 cores) and
\* jiffy_in_seconds is 1 divided by the clock rate found at start-up.
C15_PowerModelStable ==
    [][ /\ pc \notin {"power", "clock"} => UNCHANGED startup
        /\ pass' > 0
           => /\ average_core_power' = CorePowerOf[num_physical_cores']
              /\ jiffy_in_seconds' = JiffyOf[clk_tck']
              /\ num_physical_cores' = 7 => average_core_power' = FiveWatts ]_vars

\* two passes have run on a machine with 7 cores and a core still has 5 W
C15_Witness ==
    /\ pc = "tick"
    /\ pass >= 2
    /\ reads >= 1
    /\ num_physical_cores = 7
    /\ average_core_power = FiveWatts

\* C16: the families are keyed by the whole of Labels.  Once a pid has been
\* read again under another name or command line, the entry of the old
\* triple is still there with the values of its own last reading, and the
\* new triple has an entry of its own; and an identity that was in the store
\* and is read again holds the values of the new reading, smaller or not.
C16_KeyedByTriple ==
    /\ \A old \in DOMAIN last : \A new \in DOMAIN last :
          (old.pid = new.pid /\ old # new /\ last[old].pass < last[new].pass)
          => /\ old \in DOMAIN cpu_time
             /\ old \in DOMAIN energy
             /\ cpu_time[old] = CpuSecondsOf(last[old].jiffies)
             /\ energy[old] = EnergyWhOf(last[old].jiffies)
             /\ Settled(new)
                => /\ new \in DOMAIN cpu_time
                   /\ new \in DOMAIN energy
                   /\ cpu_time[new] = CpuSecondsOf(last[new].jiffies)
    /\ (pc = "loop" /\ idx > 0 /\ prev # Absent)
       => /\ cpu_time[labels] = CpuSecondsOf(last[labels].jiffies)
          /\ Cardinality(DOMAIN cpu_time) <= Cardinality(DOMAIN last)

\* pid 1 held 411 s under one name; it was read again under the other name,
\* which now holds 1 s, and the first entry still holds 411 s
C16_Witness ==
    /\ pc = "tick"
    /\ \E old \in DOMAIN last : \E new \in DOMAIN last :
          /\ old.pid = new.pid
          /\ old.process_name # new.process_name
          /\ last[old].pass < last[new].pass
          /\ cpu_time[old] = 411
          /\ cpu_time[new] = 1

\* C17: cpu_time and energy are two maps.  In every state, the states in the
\* middle of an upsert included, every identity with an entry in energy has
\* one in cpu_time; and while main waits for the tick the two have the same
\* keys.
C17_EnergyKeysInCpuTime ==
    /\ DOMAIN energy \subseteq DOMAIN cpu_time
    /\ pc = "tick" => DOMAIN energy = DOMAIN cpu_time

\* in the middle of the upsert of a second identity cpu_time has its entry
\* and energy does not yet
C17_Witness ==
    /\ pc = "energy_get_or_create"
    /\ DOMAIN energy # {}
    /\ labels \in DOMAIN cpu_time
    /\ labels \notin DOMAIN energy

====
